---------------------------- MODULE Spec2Model ----------------------------
(***************************************************************************)
(* Model of the SAP license recommendation tool (src/main.py).             *)
(*                                                                         *)
(* Text is modelled as a sequence of one-character strings, so that        *)
(* str.strip(), str.title() and str.upper() are computed character by      *)
(* character.  A cell value is a record: Str(s) for a string, NaN for an   *)
(* empty spreadsheet cell (pandas NaN) and None for Python's None.         *)
(***************************************************************************)
EXTENDS Integers, Sequences, FiniteSets, TLC

(***************************************************************************)
(* Bounds of the model.                                                    *)
(***************************************************************************)
MaxStrLen     == 4   \* longest raw string handed to normalize_license
MaxListLen    == 3   \* longest list handed to get_highest_license
MaxUserRows   == 2   \* rows of the User-Tcode sheet
MaxMasterRows == 2   \* rows of the License Master sheet
MaxLicenseRows == 3  \* rows of the User-Tcode sheet in SpecLicense

(***************************************************************************)
(* Values.                                                                 *)
(***************************************************************************)
Str(s) == [tag |-> "str", s |-> s]
NaN    == [tag |-> "nan", s |-> <<>>]
None   == [tag |-> "none", s |-> <<>>]

\* pd.isna(x): true of NaN and of None
IsNa(x) == x.tag # "str"

(***************************************************************************)
(* Characters: space, the ASCII digits and the ASCII letters.               *)
(***************************************************************************)
UpperCase == << "A","B","C","D","E","F","G","H","I","J","K","L","M",
                "N","O","P","Q","R","S","T","U","V","W","X","Y","Z" >>
LowerCase == << "a","b","c","d","e","f","g","h","i","j","k","l","m",
                "n","o","p","q","r","s","t","u","v","w","x","y","z" >>

Digits    == << "0","1","2","3","4","5","6","7","8","9" >>

\* the character tables, computed once
DigitSet == { Digits[i] : i \in 1..Len(Digits) }
UpperSet == { UpperCase[i] : i \in 1..Len(UpperCase) }
LowerSet == { LowerCase[i] : i \in 1..Len(LowerCase) }
UpperOf  == [c \in LowerSet |-> UpperCase[CHOOSE i \in 1..Len(LowerCase) : LowerCase[i] = c]]
LowerOf  == [c \in UpperSet |-> LowerCase[CHOOSE i \in 1..Len(UpperCase) : UpperCase[i] = c]]
OrdOf    ==
    [c \in {" "} \cup DigitSet \cup UpperSet \cup LowerSet |->
        IF c = " " THEN 32
        ELSE IF c \in DigitSet THEN 47 + (CHOOSE i \in 1..Len(Digits) : Digits[i] = c)
        ELSE IF c \in UpperSet THEN 64 + (CHOOSE i \in 1..Len(UpperCase) : UpperCase[i] = c)
        ELSE 96 + (CHOOSE i \in 1..Len(LowerCase) : LowerCase[i] = c)]

IsUpper(c) == c \in UpperSet
IsLower(c) == c \in LowerSet
IsCased(c) == IsUpper(c) \/ IsLower(c)
IsSpace(c) == c = " "

\* the upper-case and lower-case forms of one character
ToUpper(c) == IF IsLower(c) THEN UpperOf[c] ELSE c
ToLower(c) == IF IsUpper(c) THEN LowerOf[c] ELSE c

\* ord(c): space < digits < upper-case letters < lower-case letters
Ord(c) == OrdOf[c]

\* Python's s < t on str: lexicographic by code point
RECURSIVE StrLess(_, _)
StrLess(s, t) ==
    IF t = <<>> THEN FALSE
    ELSE IF s = <<>> THEN TRUE
    ELSE IF Ord(Head(s)) # Ord(Head(t)) THEN Ord(Head(s)) < Ord(Head(t))
    ELSE StrLess(Tail(s), Tail(t))

(***************************************************************************)
(* str methods.                                                            *)
(***************************************************************************)
\* str.strip(): what lies between the first and the last non-space character
Between(s, kept) ==
    IF kept = {} THEN <<>>
    ELSE SubSeq(s, CHOOSE i \in kept : \A k \in kept : i <= k,
                   CHOOSE i \in kept : \A k \in kept : k <= i)

Strip(s) == Between(s, { i \in 1..Len(s) : ~IsSpace(s[i]) })

\* str.upper()
StrUpper(s) == [i \in 1..Len(s) |-> ToUpper(s[i])]

\* str.title(): a cased character is upper-cased when the character before it
\* is not cased (or there is none) and lower-cased otherwise
StrTitle(s) ==
    [i \in 1..Len(s) |->
        IF i > 1 /\ IsCased(s[i - 1]) THEN ToLower(s[i]) ELSE ToUpper(s[i])]

\* str(x) / Series.astype(str): NaN becomes the text "nan"
AsStr(x) ==
    IF x.tag = "str" THEN x.s
    ELSE IF x.tag = "nan" THEN << "n","a","n" >>
    ELSE << "N","o","n","e" >>

(***************************************************************************)
(* LICENSE PRIORITY LOGIC                                                  *)
(***************************************************************************)
Professional == << "P","r","o","f","e","s","s","i","o","n","a","l" >>
Functional   == << "F","u","n","c","t","i","o","n","a","l" >>
Productivity == << "P","r","o","d","u","c","t","i","v","i","t","y" >>
NoData       == << "N","o"," ","D","a","t","a" >>
NotAssigned  == << "N","o","t"," ","A","s","s","i","g","n","e","d" >>

\* LICENSE_PRIORITY = {"Professional": 3, "Functional": 2, "Productivity": 1}
LICENSE_PRIORITY ==
    (Str(Professional) :> 3) @@ (Str(Functional) :> 2) @@ (Str(Productivity) :> 1)

\* LICENSE_PRIORITY.get(x, 0)
PriorityGet(x) == IF x \in DOMAIN LICENSE_PRIORITY THEN LICENSE_PRIORITY[x] ELSE 0

\* normalize_license without its pd.isna guard
normalize_license_unguarded(license_name) ==
    Str(StrTitle(Strip(AsStr(license_name))))

\* normalize_license(license_name)
normalize_license(license_name) ==
    IF IsNa(license_name) THEN None
    ELSE Str(StrTitle(Strip(AsStr(license_name))))

\* Python truthiness of a cell value: None and "" are falsy, NaN is truthy
Truthy(x) == x.tag = "nan" \/ (x.tag = "str" /\ x.s # <<>>)

\* [f(x) for x in seq if p(x)] is built from these two
RECURSIVE SelectTruthy(_)
SelectTruthy(seq) ==
    IF seq = <<>> THEN <<>>
    ELSE IF Truthy(Head(seq)) THEN <<Head(seq)>> \o SelectTruthy(Tail(seq))
    ELSE SelectTruthy(Tail(seq))

RECURSIVE SelectValid(_)
SelectValid(seq) ==
    IF seq = <<>> THEN <<>>
    ELSE IF Head(seq) \in DOMAIN LICENSE_PRIORITY
         THEN <<Head(seq)>> \o SelectValid(Tail(seq))
    ELSE SelectValid(Tail(seq))

\* max(seq, key=LICENSE_PRIORITY[...]): the first element of greatest key
RECURSIVE MaxByPriority(_, _)
MaxByPriority(best, rest) ==
    IF rest = <<>> THEN best
    ELSE IF LICENSE_PRIORITY[Head(rest)] > LICENSE_PRIORITY[best]
         THEN MaxByPriority(Head(rest), Tail(rest))
    ELSE MaxByPriority(best, Tail(rest))

\* [normalize_license(lic) for lic in seq]
NormalizeAll(seq) == [i \in 1..Len(seq) |-> normalize_license(seq[i])]

\* returning the first valid license instead of the one of greatest priority
FirstOf(valid_licenses) ==
    IF valid_licenses = <<>> THEN Str(NoData) ELSE Head(valid_licenses)

\* the last two statements of get_highest_license
HighestOf(valid_licenses) ==
    IF valid_licenses = <<>> THEN Str(NoData)
    ELSE MaxByPriority(Head(valid_licenses), Tail(valid_licenses))

\* get_highest_license(license_list)
get_highest_license(license_list) ==
    HighestOf(SelectValid(NormalizeAll(SelectTruthy(license_list))))

\* the comparisons indexing LICENSE_PRIORITY[...] instead of .get(..., 0)
StatusOfIndexed(cur, rec) ==
    IF cur = rec THEN "Optimized"
    ELSE IF cur \notin DOMAIN LICENSE_PRIORITY \/ rec \notin DOMAIN LICENSE_PRIORITY
         THEN "KeyError"
    ELSE IF LICENSE_PRIORITY[cur] > LICENSE_PRIORITY[rec] THEN "Over-Licensed"
    ELSE IF LICENSE_PRIORITY[cur] < LICENSE_PRIORITY[rec] THEN "Under-Licensed"
    ELSE "Review"

\* the comparisons taking labels of equal priority for equal
StatusOfByRank(cur, rec) ==
    IF PriorityGet(cur) = PriorityGet(rec) THEN "Optimized"
    ELSE IF PriorityGet(cur) > PriorityGet(rec) THEN "Over-Licensed"
    ELSE "Under-Licensed"

\* the comparisons of determine_status, on the normalized labels
StatusOf(cur, rec) ==
    IF cur = rec THEN "Optimized"
    ELSE IF PriorityGet(cur) > PriorityGet(rec) THEN "Over-Licensed"
    ELSE IF PriorityGet(cur) < PriorityGet(rec) THEN "Under-Licensed"
    ELSE "Review"

\* determine_status comparing the labels as given, without normalize_license
determine_status_raw(current, recommended) == StatusOf(current, recommended)

\* determine_status(current, recommended); the status texts without their emoji
determine_status(current, recommended) ==
    StatusOf(normalize_license(current), normalize_license(recommended))

(***************************************************************************)
(* State.                                                                  *)
(*   fn, args, ret, status : one call of a function of LICENSE PRIORITY    *)
(*                           LOGIC and what it returned                    *)
(*   the other variables   : one run of the script on two uploaded sheets  *)
(* A sheet or DataFrame is [cols |-> its column names, rows |-> its rows]; *)
(* a row carries NaN in a column the frame does not have.                  *)
(***************************************************************************)
VARIABLES
    pc,                 \* position of the run
    fn, args, ret, status,
    user_file,          \* the uploaded User-Tcode sheet
    license_master_file,\* the uploaded License Master sheet
    df_users,           \* DataFrame read from user_file
    df_license_master,  \* DataFrame read from license_master_file
    merged,             \* result of pd.merge
    error,              \* text shown by st.error, "" when none
    selected_user,      \* value of the selectbox
    manual,             \* what Manual Mode wrote: <<>> or <<assessment>>
    manual_chart,       \* Manual Mode drew its pie chart
    df_result,          \* rows of the bulk report
    report_shown,       \* st.dataframe(df_result) ran
    bulk_charts,        \* number of Bulk Mode charts drawn
    download            \* the download button was offered

call_vars == << fn, args, ret, status >>
file_vars == << user_file, license_master_file >>
out_vars  == << error, selected_user, manual, manual_chart, df_result,
                report_shown, bulk_charts, download >>
run_vars  == << file_vars, df_users, df_license_master, merged, out_vars >>
vars      == << pc, call_vars, run_vars >>

\* all sequences over S of length at most n
SeqsUpTo(S, n) == UNION { [1..k -> S] : k \in 0..n }

EmptyFrame == [cols |-> {}, rows |-> <<>>]

(***************************************************************************)
(* Inputs of the function calls.                                           *)
(***************************************************************************)
ProfessionalLoose == << " ","p","r","o","f","e","s","s","i","o","n","a","l"," " >>
FunctionalUpper   == << "F","U","N","C","T","I","O","N","A","L" >>
ProductivityLower == << "p","r","o","d","u","c","t","i","v","i","t","y" >>
Gold              == << "G","o","l","d" >>
GoldLoose         == << "g","o","l","d"," " >>

RawChars == { " ", "a", "B", "1" }

ListInputs ==
    { Str(Professional), Str(ProfessionalLoose), Str(Functional),
      Str(FunctionalUpper), Str(ProductivityLower), Str(NoData), Str(Gold),
      Str(<<>>), NaN, None }

StatusInputs ==
    { Str(Professional), Str(ProfessionalLoose), Str(Functional),
      Str(FunctionalUpper), Str(Productivity), Str(NotAssigned), Str(NoData),
      Str(Gold), Str(GoldLoose), Str(<<>>), NaN, None }

NormalizeInputs ==
    { Str(s) : s \in SeqsUpTo(RawChars, MaxStrLen) } \cup ListInputs \cup StatusInputs

NoCall == fn = "" /\ args = <<>> /\ ret = None /\ status = ""

NoOutput ==
    /\ error = "" /\ selected_user = None
    /\ manual = <<>> /\ manual_chart = FALSE /\ df_result = <<>>
    /\ report_shown = FALSE /\ bulk_charts = 0 /\ download = FALSE

NoRun ==
    /\ user_file = EmptyFrame /\ license_master_file = EmptyFrame
    /\ df_users = EmptyFrame /\ df_license_master = EmptyFrame
    /\ merged = EmptyFrame
    /\ NoOutput

InitCalls ==
    /\ pc = "call"
    /\ ret = None /\ status = ""
    /\ \/ fn = "normalize_license" /\ \E x \in NormalizeInputs : args = <<x>>
       \/ fn = "get_highest_license" /\ \E l \in SeqsUpTo(ListInputs, MaxListLen) : args = <<l>>
       \/ fn = "determine_status" /\ \E c, r \in StatusInputs : args = <<c, r>>
    /\ NoRun

CallNormalize ==
    /\ pc = "call" /\ fn = "normalize_license"
    /\ ret' = normalize_license(args[1])
    /\ pc' = "returned"
    /\ UNCHANGED << fn, args, status, run_vars >>

CallGetHighest ==
    /\ pc = "call" /\ fn = "get_highest_license"
    /\ ret' = get_highest_license(args[1])
    /\ pc' = "returned"
    /\ UNCHANGED << fn, args, status, run_vars >>

CallDetermineStatus ==
    /\ pc = "call" /\ fn = "determine_status"
    /\ status' = determine_status(args[1], args[2])
    /\ pc' = "returned"
    /\ UNCHANGED << fn, args, ret, run_vars >>

NextCalls == CallNormalize \/ CallGetHighest \/ CallDetermineStatus

SpecCalls == InitCalls /\ [][NextCalls]_vars

(***************************************************************************)
(* The uploaded sheets.                                                    *)
(***************************************************************************)
Alice == << "A","l","i","c","e" >>
Bob   == << "B","o","b" >>
TcodeVA01Loose == << " ","v","a","0","1" >>
TcodeVA01Pad   == << "V","A","0","1"," " >>
TcodeSE38Mixed == << "S","e","3","8" >>
TcodeSE38Lower == << "s","e","3","8" >>

UserColumns   == { "Tcode", "User Name", "License" }
MasterColumns == { "Tcode", "License Type" }

\* the sheets of Spec: any columns, two users and rows without a user
UserTcodes    == { Str(TcodeVA01Loose), Str(TcodeSE38Mixed) }
UserNames     == { Str(Alice), Str(Bob), NaN }
UserLicenses  == { NaN }
MasterTcodes  == { Str(TcodeVA01Pad), Str(TcodeSE38Lower) }
MasterTypes   == { Str(ProfessionalLoose) }

\* the sheets of SpecJoin: all columns, rows without a code, any license type
JoinTcodes    == UserTcodes \cup { NaN }
JoinNames     == { Str(Alice), Str(Bob) }
JoinTypes     == { Str(ProfessionalLoose), Str(FunctionalUpper), NaN }

\* the sheets of SpecLicense: one user with assigned licenses
LicenseNames  == { Str(Alice) }
LicenseValues == { Str(Functional), Str(Professional), NaN }
LicenseTypes  == { Str(FunctionalUpper) }

\* the cells a column can hold: NaN only when the sheet lacks the column
Cells(cols, name, values) == IF name \in cols THEN values ELSE { NaN }

UserSheets(colsets, tcodes, names, licenses, n) ==
    { [cols |-> c, rows |-> r] :
        c \in colsets,
        r \in SeqsUpTo([Tcode : tcodes, User_Name : names, License : licenses], n) }

UserSheetOk(f, tcodes, names, licenses) ==
    \A i \in 1..Len(f.rows) :
        /\ f.rows[i].Tcode \in Cells(f.cols, "Tcode", tcodes)
        /\ f.rows[i].User_Name \in Cells(f.cols, "User Name", names)
        /\ f.rows[i].License \in Cells(f.cols, "License", licenses)

MasterSheets(colsets, tcodes, types, n) ==
    { [cols |-> c, rows |-> r] :
        c \in colsets,
        r \in SeqsUpTo([Tcode : tcodes, License_Type : types], n) }

MasterSheetOk(f, tcodes, types) ==
    \A i \in 1..Len(f.rows) :
        /\ f.rows[i].Tcode \in Cells(f.cols, "Tcode", tcodes)
        /\ f.rows[i].License_Type \in Cells(f.cols, "License Type", types)

(***************************************************************************)
(* DataFrame operations.                                                   *)
(***************************************************************************)
\* the Tcode cleaned without str.upper()
NormalizeTcodeCaseKept(x) == Str(Strip(AsStr(x)))

\* Series.astype(str).str.strip().str.upper()
NormalizeTcode(x) == Str(StrUpper(Strip(AsStr(x))))

\* Series.astype(str).str.strip().str.title()
NormalizeLicenseType(x) == Str(StrTitle(Strip(AsStr(x))))

\* the rows an inner join emits for one left row
MergeRowInner(l, right) ==
    LET matches == SelectSeq(right, LAMBDA r : r.Tcode = l.Tcode)
    IN  [i \in 1..Len(matches) |->
            [Tcode |-> l.Tcode, User_Name |-> l.User_Name,
             License |-> l.License, License_Type |-> matches[i].License_Type]]

\* the rows pd.merge(..., on="Tcode", how="left") emits for one left row
MergeRow(l, right) ==
    LET matches == SelectSeq(right, LAMBDA r : r.Tcode = l.Tcode)
    IN  IF matches = <<>>
        THEN << [Tcode |-> l.Tcode, User_Name |-> l.User_Name,
                 License |-> l.License, License_Type |-> NaN] >>
        ELSE [i \in 1..Len(matches) |->
                 [Tcode |-> l.Tcode, User_Name |-> l.User_Name,
                  License |-> l.License, License_Type |-> matches[i].License_Type]]

RECURSIVE MergeRows(_, _)
MergeRows(left, right) ==
    IF left = <<>> THEN <<>>
    ELSE MergeRow(Head(left), right) \o MergeRows(Tail(left), right)

\* pd.merge(df_users, df_license_master, on="Tcode", how="left")
Merge(left, right) ==
    [cols |-> left.cols \cup right.cols, rows |-> MergeRows(left.rows, right.rows)]

\* Series.dropna().tolist() of one column of rows
RECURSIVE DropNa(_)
DropNa(seq) ==
    IF seq = <<>> THEN <<>>
    ELSE IF IsNa(Head(seq)) THEN DropNa(Tail(seq))
    ELSE <<Head(seq)>> \o DropNa(Tail(seq))

Column(rows, name) ==
    [i \in 1..Len(rows) |->
        IF name = "License" THEN rows[i].License
        ELSE IF name = "License Type" THEN rows[i].License_Type
        ELSE IF name = "User Name" THEN rows[i].User_Name
        ELSE rows[i].Tcode]

\* Series.unique(): the distinct values in order of first appearance
RECURSIVE Unique(_)
Unique(seq) ==
    IF seq = <<>> THEN <<>>
    ELSE LET init == Unique(SubSeq(seq, 1, Len(seq) - 1))
             last == seq[Len(seq)]
         IN  IF \E i \in 1..Len(init) : init[i] = last THEN init
             ELSE Append(init, last)

\* merged[merged["User Name"] == user]: NaN and None equal no cell
RowsOf(rows, user) == SelectSeq(rows, LAMBDA r : ~IsNa(user) /\ r.User_Name = user)

Count(seq, v) == Cardinality({ i \in 1..Len(seq) : seq[i] = v })

\* Series.mode()[0]: of the most frequent non-NaN values, the least in sort order
Least(values) == CHOOSE m \in values : \A o \in values : o = m \/ StrLess(m.s, o.s)

MostFrequent(vals, count) == { v \in vals : \A o \in vals : count[o] <= count[v] }

Counts(seq, vals) == MostFrequent(vals, [v \in vals |-> Count(seq, v)])

Mode0(seq) == Least(Counts(seq, { seq[i] : i \in { j \in 1..Len(seq) : ~IsNa(seq[j]) } }))

\* the groups of DataFrame.groupby("User Name"): the non-NaN keys, sorted
RECURSIVE SortKeys(_)
SortKeys(keys) ==
    IF keys = {} THEN <<>>
    ELSE <<Least(keys)>> \o SortKeys(keys \ {Least(keys)})

\* one key for each row instead of one for each group
GroupKeysPerRow(rows) == DropNa(Column(rows, "User Name"))

GroupKeys(rows) ==
    SortKeys({ rows[i].User_Name : i \in { j \in 1..Len(rows) : ~IsNa(rows[j].User_Name) } })

(***************************************************************************)
(* The assessment of one user's rows (Manual Mode and the Bulk Mode loop). *)
(***************************************************************************)
\* "Safe current license extraction"
CurrentLicense(cols, user_data) ==
    IF "License" \in cols /\ \E i \in 1..Len(user_data) : ~IsNa(user_data[i].License)
    THEN Mode0(Column(user_data, "License"))
    ELSE Str(NotAssigned)

\* "Determine recommendation"
RecommendedLicense(user_data) ==
    get_highest_license(NormalizeAll(DropNa(Column(user_data, "License Type"))))

Assessment(user, current_license, recommended_license) ==
    [ User_Name   |-> user,
      Current     |-> current_license,
      Recommended |-> recommended_license,
      Status      |-> determine_status(current_license, recommended_license) ]

Assess(cols, user, user_data) ==
    Assessment(user, CurrentLicense(cols, user_data), RecommendedLicense(user_data))

(***************************************************************************)
(* One run of the script.                                                  *)
(***************************************************************************)
InitWith(users, masters) ==
    /\ pc = "uploaded"
    /\ NoCall
    /\ user_file \in users
    /\ license_master_file \in masters
    /\ df_users = EmptyFrame /\ df_license_master = EmptyFrame
    /\ merged = EmptyFrame
    /\ NoOutput

Init ==
    InitWith(
        { f \in UserSheets(SUBSET UserColumns, UserTcodes, UserNames, UserLicenses,
                           MaxUserRows) :
            UserSheetOk(f, UserTcodes, UserNames, UserLicenses) },
        { f \in MasterSheets(SUBSET MasterColumns, MasterTcodes, MasterTypes,
                             MaxMasterRows) :
            MasterSheetOk(f, MasterTcodes, MasterTypes) })

InitJoin ==
    InitWith(
        UserSheets({ UserColumns }, JoinTcodes, JoinNames, UserLicenses, MaxUserRows),
        MasterSheets({ MasterColumns }, MasterTcodes, JoinTypes, MaxMasterRows))

InitLicense ==
    InitWith(
        { f \in UserSheets({ UserColumns, UserColumns \ { "License" } }, UserTcodes,
                           LicenseNames, LicenseValues, MaxLicenseRows) :
            UserSheetOk(f, UserTcodes, LicenseNames, LicenseValues) },
        MasterSheets({ MasterColumns }, MasterTcodes, LicenseTypes, MaxMasterRows))

\* df["Tcode"] = df["Tcode"].astype(str).str.strip().str.upper()
NormalizeTcodes(df) ==
    [df EXCEPT !.rows = [i \in 1..Len(df.rows) |->
                            [df.rows[i] EXCEPT !.Tcode = NormalizeTcode(@)]]]

\* df["License Type"] = df["License Type"].astype(str).str.strip().str.title()
NormalizeLicenseTypes(df) ==
    [df EXCEPT !.rows = [i \in 1..Len(df.rows) |->
                            [df.rows[i] EXCEPT !.License_Type = NormalizeLicenseType(@)]]]

\* the test with "and" in place of "or"
TcodeMissingInBoth(ucols, mcols) == "Tcode" \notin ucols /\ "Tcode" \notin mcols

\* the test that guards the first st.stop()
TcodeMissing(ucols, mcols) == "Tcode" \notin ucols \/ "Tcode" \notin mcols

\* PROCESSING: read both sheets, validate the columns, normalize, merge
Process ==
    /\ pc = "uploaded"
    /\ \/ /\ TcodeMissing(user_file.cols, license_master_file.cols)
          /\ error' = "'Tcode' column missing in one of the files."
          /\ pc' = "stopped"
          /\ df_users' = user_file
          /\ df_license_master' = license_master_file
          /\ UNCHANGED merged
       \/ /\ ~TcodeMissing(user_file.cols, license_master_file.cols)
          /\ "License Type" \notin license_master_file.cols
          /\ error' = "'License Type' column missing in License Master file."
          /\ pc' = "stopped"
          /\ df_users' = NormalizeTcodes(user_file)
          /\ df_license_master' = NormalizeTcodes(license_master_file)
          /\ UNCHANGED merged
       \/ /\ ~TcodeMissing(user_file.cols, license_master_file.cols)
          /\ "License Type" \in license_master_file.cols
          /\ df_users' = NormalizeTcodes(user_file)
          /\ df_license_master' =
                NormalizeLicenseTypes(NormalizeTcodes(license_master_file))
          /\ merged' = Merge(df_users', df_license_master')
          /\ pc' = "merged"
          /\ UNCHANGED error
    /\ UNCHANGED << call_vars, file_vars, selected_user, manual, manual_chart,
                    df_result, report_shown, bulk_charts, download >>

\* MANUAL MODE
ManualMode ==
    /\ pc = "merged"
    /\ \/ /\ "User Name" \notin merged.cols      \* merged["User Name"]: KeyError
          /\ pc' = "crashed"
          /\ UNCHANGED << selected_user, manual, manual_chart >>
       \/ /\ "User Name" \in merged.cols
          /\ \E users \in { Unique(DropNa(Column(merged.rows, "User Name"))) } :
             \E u \in IF users = <<>> THEN { None }
                      ELSE { users[i] : i \in 1..Len(users) } :
             \E user_data \in { RowsOf(merged.rows, u) } :
                /\ selected_user' = u
                /\ manual' = << Assess(merged.cols, u, user_data) >>
                /\ manual_chart' = (DropNa(Column(user_data, "License Type")) # <<>>)
          /\ pc' = "manual_done"
    /\ UNCHANGED << call_vars, file_vars, df_users, df_license_master, merged,
                    error, df_result, report_shown, bulk_charts, download >>

\* the rows the Bulk Mode loop appends, one for each group
UserResults(df, keys) ==
    [i \in 1..Len(keys) |-> Assess(df.cols, keys[i], RowsOf(df.rows, keys[i]))]

\* BULK MODE
BulkMode ==
    /\ pc = "manual_done"
    /\ df_result' = UserResults(merged, GroupKeys(merged.rows))
    /\ report_shown' = TRUE
    /\ \/ /\ df_result' = <<>>     \* df_result["Recommended License"]: KeyError
          /\ pc' = "crashed"
          /\ UNCHANGED << bulk_charts, download >>
       \/ /\ df_result' # <<>>
          /\ bulk_charts' = 2
          /\ download' = TRUE
          /\ pc' = "done"
    /\ UNCHANGED << call_vars, file_vars, df_users, df_license_master, merged,
                    error, selected_user, manual, manual_chart >>

Next == Process \/ ManualMode \/ BulkMode

Spec == Init /\ [][Next]_vars

SpecJoin == InitJoin /\ [][Next]_vars

SpecLicense == InitLicense /\ [][Next]_vars

(***************************************************************************)
(* Properties of the functions of LICENSE PRIORITY LOGIC (SpecCalls).      *)
(***************************************************************************)
Tiers    == { Str(Professional), Str(Functional), Str(Productivity) }
Statuses == { "Optimized", "Over-Licensed", "Under-Licensed", "Review" }

\* the rank of a label as the specification's priority model gives it
RankOf(x) ==
    IF x = Str(Professional) THEN 3
    ELSE IF x = Str(Functional) THEN 2
    ELSE IF x = Str(Productivity) THEN 1
    ELSE 0

Returned(f) == pc = "returned" /\ fn = f

\* C1: get_highest_license returns the label of greatest rank among the
\* entries whose normalized form is in the priority table, whatever their
\* order and multiplicity, and "No Data" when there is no such entry.
C1_HighestIsMaxRank ==
    Returned("get_highest_license") =>
        LET list  == args[1]
            known == { normalize_license(list[i]) : i \in 1..Len(list) } \cap Tiers
        IN  IF known = {} THEN ret = Str(NoData)
            ELSE ret \in known /\ \A t \in known : RankOf(t) <= RankOf(ret)

C1_Witness ==
    /\ Returned("get_highest_license")
    /\ args[1] = << Str(ProductivityLower), Str(ProfessionalLoose), Str(Functional) >>
    /\ ret = Str(Professional)

\* C2: determine_status is total: every pair of labels, sentinels, absent
\* values and unrecognized labels gets one of the four statuses, and a
\* recognized tier paired with itself gets Optimized.
C2_StatusTotal ==
    Returned("determine_status") =>
        /\ status \in Statuses
        /\ (args[1] \in Tiers /\ args[1] = args[2]) => status = "Optimized"

C2_Witness ==
    /\ Returned("determine_status")
    /\ args = << NaN, Str(Gold) >>
    /\ status = "Review"

\* C3: determine_status returns Over-Licensed exactly when the rank of the
\* normalized current label is greater than the rank of the normalized
\* recommended label, and Under-Licensed exactly when it is less.
C3_OverUnderByRank ==
    Returned("determine_status") =>
        LET c == RankOf(normalize_license(args[1]))
            r == RankOf(normalize_license(args[2]))
        IN  /\ status = "Over-Licensed" <=> c > r
            /\ status = "Under-Licensed" <=> c < r

C3_Witness ==
    /\ Returned("determine_status")
    /\ args = << Str(NotAssigned), Str(Productivity) >>
    /\ status = "Under-Licensed"

\* C10: normalize_license is idempotent and maps an absent value to an
\* absent value.
C10_NormalizeIdempotent ==
    Returned("normalize_license") =>
        /\ normalize_license(ret) = ret
        /\ IsNa(args[1]) => IsNa(ret)

C10_Witness ==
    /\ Returned("normalize_license")
    /\ args[1] = Str(<< " ", "a", "B", " " >>)
    /\ ret = Str(<< "A", "b" >>)

(***************************************************************************)
(* Properties of a run (Spec, SpecJoin, SpecLicense).  They are stated on  *)
(* the uploaded sheets, not on the merged frame.                           *)
(***************************************************************************)
\* the trimmed, upper-cased activity code of a cell
KeyOf(x) == Str(StrUpper(Strip(AsStr(x))))

\* the tier label a catalog cell stands for
TierOf(x) == Str(StrTitle(Strip(AsStr(x))))

ActivityRows == user_file.rows
CatalogRows  == license_master_file.rows

\* the activity records of one user
RecordsOf(u) == { i \in 1..Len(ActivityRows) : ActivityRows[i].User_Name = u }

\* the codes of the rows of a sheet, and the tiers of the rows of the catalog
KeysOf(rows)  == [i \in 1..Len(rows) |-> KeyOf(rows[i].Tcode)]
TiersOf(rows) == [j \in 1..Len(rows) |-> TierOf(rows[j].License_Type)]

\* the catalog entries with code k
EntriesAmong(ckeys, k) == { j \in 1..Len(ckeys) : ckeys[j] = k }

\* the catalog entries whose code is the code of activity record i
EntriesFor(i) == EntriesAmong(KeysOf(CatalogRows), KeyOf(ActivityRows[i].Tcode))

\* the recognized tiers the catalog assigns to the codes of some records
MatchedTiersIn(ukeys, ckeys, ctiers, records) ==
    { ctiers[j] : j \in { k \in 1..Len(ckeys) : \E i \in records : ukeys[i] = ckeys[k] } }
        \cap Tiers

\* the recognized tiers the catalog assigns to the codes of user u
MatchedTiers(u) ==
    MatchedTiersIn(KeysOf(ActivityRows), KeysOf(CatalogRows), TiersOf(CatalogRows),
                   RecordsOf(u))

HighestTier(tiers) ==
    IF tiers = {} THEN Str(NoData)
    ELSE CHOOSE t \in tiers : \A o \in tiers : RankOf(o) <= RankOf(t)

RecommendedAgree(assessments, ukeys, ckeys, ctiers) ==
    \A a \in assessments :
        a.Recommended = HighestTier(MatchedTiersIn(ukeys, ckeys, ctiers, RecordsOf(a.User_Name)))

\* every assessment written so far, by Manual Mode or into the bulk report
Assessments ==
    { manual[i] : i \in 1..Len(manual) } \cup { df_result[i] : i \in 1..Len(df_result) }

\* C4: in Manual Mode and in the bulk report the recommended license of a user
\* is the highest-ranked tier the catalog assigns to a code of that user, and
\* "No Data" when no code of the user matches a catalog entry with a tier.
C4_RecommendedIsHighestMatched ==
    RecommendedAgree(Assessments, KeysOf(ActivityRows), KeysOf(CatalogRows),
                     TiersOf(CatalogRows))

C4_Witness ==
    /\ pc = "done"
    /\ \E a, b \in Assessments :
          /\ a.Recommended = Str(Professional)
          /\ Str(Functional) \in MatchedTiers(a.User_Name)
          /\ b.Recommended = Str(NoData)
          /\ RecordsOf(b.User_Name) # {}

\* the License values assigned on the activity records of user u
AssignedTo(u) ==
    IF "License" \in user_file.cols
    THEN { ActivityRows[i].License : i \in RecordsOf(u) } \ { NaN }
    ELSE {}

RecordCount(u, v) == Cardinality({ i \in RecordsOf(u) : ActivityRows[i].License = v })

\* C5: the current license of a user is a most frequent non-absent License
\* value over the user's activity records, each record counted once, and
\* "Not Assigned" when the user has no License value.
C5_CurrentIsMostFrequent ==
    \A a \in Assessments :
        IF AssignedTo(a.User_Name) = {} THEN a.Current = Str(NotAssigned)
        ELSE /\ a.Current \in AssignedTo(a.User_Name)
             /\ \A v \in AssignedTo(a.User_Name) :
                   RecordCount(a.User_Name, v) <= RecordCount(a.User_Name, a.Current)

MissingRequired ==
    \/ ~({ "Tcode", "User Name" } \subseteq user_file.cols)
    \/ ~({ "Tcode", "License Type" } \subseteq license_master_file.cols)

NothingProduced ==
    /\ manual = <<>> /\ ~manual_chart
    /\ df_result = <<>> /\ ~report_shown
    /\ bulk_charts = 0 /\ ~download

\* C6: when a sheet lacks a required column the run ends in an error state
\* (st.error and st.stop, or an uncaught KeyError) in which nothing more
\* runs, and it writes no assessment, report, chart or download.
C6_MissingColumnHalts ==
    MissingRequired =>
        /\ NothingProduced
        /\ pc \in { "uploaded", "merged", "stopped", "crashed" }
        /\ pc = "merged" => "User Name" \notin merged.cols
        /\ pc \in { "stopped", "crashed" } => ~ENABLED Next

C6_Witness ==
    /\ pc = "crashed"
    /\ "User Name" \notin user_file.cols
    /\ Len(merged.rows) > 0
    /\ NothingProduced

\* the distinct users of the activity sheet
DistinctUsers == { ActivityRows[i].User_Name : i \in 1..Len(ActivityRows) } \ { NaN }

\* C7: the bulk report has one row for each distinct user of the activity
\* sheet and no user twice.
C7_OneRowPerUser ==
    report_shown =>
        /\ Len(df_result) = Cardinality(DistinctUsers)
        /\ { df_result[i].User_Name : i \in 1..Len(df_result) } = DistinctUsers

C7_Witness ==
    /\ pc = "done"
    /\ Len(ActivityRows) = 2
    /\ Len(merged.rows) > 2
    /\ Len(df_result) = 1

\* the number of catalog entries with the code of each activity record, the
\* number of rows the join owes to each record, and where those rows start
MatchCounts(ukeys, ckeys) ==
    [i \in 1..Len(ukeys) |-> Cardinality(EntriesAmong(ckeys, ukeys[i]))]

BlockSizes(counts) == [i \in 1..Len(counts) |-> IF counts[i] = 0 THEN 1 ELSE counts[i]]

RECURSIVE Offset(_, _)
Offset(blocks, i) == IF i = 1 THEN 0 ELSE Offset(blocks, i - 1) + blocks[i - 1]

Offsets(blocks) == [i \in 1..(Len(blocks) + 1) |-> Offset(blocks, i)]

IsLeftJoin(records, out, ukeys, counts, blocks, starts) ==
    /\ Len(out) >= Len(records)
    /\ Len(out) = starts[Len(records) + 1]
    /\ \A i \in 1..Len(records) : \A t \in 1..blocks[i] :
          /\ out[starts[i] + t].Tcode = ukeys[i]
          /\ out[starts[i] + t].User_Name = records[i].User_Name
          /\ IsNa(out[starts[i] + t].License_Type) <=> counts[i] = 0

\* C8: the merge is a left outer join on the trimmed, upper-cased code: every
\* activity record yields one row for each catalog entry with its code, and
\* exactly one row with an absent tier when there is none.
C8_LeftJoin ==
    pc \in { "merged", "manual_done", "done", "crashed" } =>
        \A ukeys  \in { KeysOf(ActivityRows) } :
        \A counts \in { MatchCounts(ukeys, KeysOf(CatalogRows)) } :
        \A blocks \in { BlockSizes(counts) } :
        \A starts \in { Offsets(blocks) } :
            IsLeftJoin(ActivityRows, merged.rows, ukeys, counts, blocks, starts)

C8_Witness ==
    /\ pc = "merged"
    /\ Len(ActivityRows) = 2
    /\ Len(merged.rows) = 3
    /\ EntriesFor(1) = {}
    /\ IsNa(merged.rows[1].License_Type)

\* C9: a user with no License value and no matching code is reported as
\* "Not Assigned", "No Data", Review; and Review is only given to two labels
\* that differ after normalization and both have rank 0.
C9_SentinelsGiveReview ==
    \A a \in Assessments :
        /\ (AssignedTo(a.User_Name) = {} /\ \A i \in RecordsOf(a.User_Name) : EntriesFor(i) = {})
              => /\ a.Current = Str(NotAssigned)
                 /\ a.Recommended = Str(NoData)
                 /\ a.Status = "Review"
        /\ a.Status = "Review"
              => /\ normalize_license(a.Current) # normalize_license(a.Recommended)
                 /\ RankOf(normalize_license(a.Current)) = 0
                 /\ RankOf(normalize_license(a.Recommended)) = 0

C9_Witness ==
    /\ pc = "done"
    /\ "License" \in user_file.cols
    /\ Len(ActivityRows) >= 2
    /\ df_result = << [ User_Name |-> Str(Alice), Current |-> Str(NotAssigned),
                        Recommended |-> Str(NoData), Status |-> "Review" ] >>

=============================================================================
